---- MODULE Spec2Model ----
(***************************************************************************)
(* Model of session_pull.py: one run of main() -- geocoding, session       *)
(* discovery (v3 listing, then the mapstyle cascade), stream listing and   *)
(* ranking, measurement probing over escalating lookback windows, and      *)
(* normalisation of the measurements into a time-sorted table.             *)
(* SpecNorm, SpecTime, SpecBox and SpecProbe run the normaliser,           *)
(* to_datetime_any, calculate_bounding_box and find_stream_with_data       *)
(* alone; SpecLive is the run with every step that can be taken taken.     *)
(*                                                                         *)
(* Every HTTP request is one step: the provider's answer is chosen from a  *)
(* small set (a transport failure, or a JSON body), and the step runs the  *)
(* code that handles the answer up to the next request.                    *)
(*                                                                         *)
(* Encoding of Python values:                                              *)
(*   None / optional dict     <<>>  /  <<d>>                               *)
(*   a JSON object            a record or function on its keys             *)
(*   an f-string a:b:c        the tuple of its ':'-separated parts         *)
(*   an integer timestamp     <<a, b, c>> meaning (a*1000 + b)*1000 + c    *)
(*   an instant               <<w, x, y, z>>, milliseconds since the epoch *)
(*                            in base 1000                                 *)
(***************************************************************************)
EXTENDS Integers, Sequences, FiniteSets, TLC

\* ---------------------------------------------------------------- bounds
\* Longest stream listing the provider returns.
MaxStreams == 2
\* Longest measurement list given to the normaliser on its own.
MaxLen == 3

\* ------------------------------------------------------- provider answers
\* An answer is a transport failure (raise_for_status, a timeout, a body
\* r.json() rejects) or a JSON body.
Fail == [ok |-> FALSE, body |-> <<>>]
Answers(bodies) == { [ok |-> TRUE, body |-> b] : b \in bodies } \cup {Fail}

\* /api/v3/sessions: session objects carry an id and a type.
V3Fixed  == [id |-> "s11", type |-> "FixedSession"]
V3Mobile == [id |-> "s12", type |-> "MobileSession"]
V3Other  == [id |-> "s13", type |-> "MobileSession"]
V3Lists ==
    { <<>>, <<V3Mobile>>, <<V3Mobile, V3Fixed>>, <<V3Mobile, V3Other>>,
      <<V3Fixed, V3Mobile>> }

\* /api/fixed/<kind>/sessions.json: objects with id, an object with only
\* session_id, or a bare identifier.
MsDict(d) == [isdict |-> TRUE, d |-> d, bare |-> "None"]
MsBare(x) == [isdict |-> FALSE, d |-> [none |-> "None"], bare |-> x]
MsLists ==
    { <<>>,
      <<MsDict([id |-> "s21", title |-> "a"]), MsDict([id |-> "s22"])>>,
      <<MsDict([session_id |-> "s23", title |-> "b"])>>,
      <<MsBare("s24")>> }

\* /api/fixed/sessions/<id>/streams.json: the i-th listed stream has its own
\* stream_id; its sensor_name is a string, JSON null (<<>>) or absent.
StreamDescs(i) ==
    { [stream_id |-> 100 + i, sensor_name |-> <<"AirBeam3-PM2.5">>],
      [stream_id |-> 100 + i, sensor_name |-> <<"AirBeam3-F">>],
      [stream_id |-> 100 + i, sensor_name |-> <<>>],
      [stream_id |-> 100 + i] }
StreamLists ==
    UNION { { l \in [1..n -> UNION { StreamDescs(i) : i \in 1..n }] :
                \A i \in 1..n : l[i] \in StreamDescs(i) } : n \in 0..MaxStreams }

\* A JSON scalar of a measurement record: null, a number or a string. The
\* number is n + f/10 (f = 0 for an integer) with n = <<a, b, c>> standing
\* for (a*1000 + b)*1000 + c, where b, c < 1000.
Null      == [k |-> "null", n |-> <<0, 0, 0>>, f |-> 0, s |-> ""]
Num(n, f) == [k |-> "num", n |-> n, f |-> f, s |-> ""]
Str(s)    == [k |-> "str", n |-> <<0, 0, 0>>, f |-> 0, s |-> s]

\* /api/v3/fixed_measurements: records in the provider's historical shapes.
\* 1700000000 s and 1700000000000 ms are one instant; 9999999999 s and
\* 9999999999000 ms lie in the year 2286.
RecSeconds   == [time |-> Num(<<1700, 0, 0>>, 0), value |-> Num(<<0, 0, 12>>, 0)]
RecMillis    == [time |-> Num(<<1700000, 0, 0>>, 0), value |-> Num(<<0, 0, 9>>, 0)]
RecFloat     == [timestamp |-> Num(<<1700, 0, 30>>, 5), value_ugm3 |-> Num(<<0, 0, 7>>, 0)]
RecIso       == [measured_at |-> Str("2023-11-14T22:14:20Z"),
                 value_calibrated |-> Num(<<0, 0, 11>>, 0)]
RecNoTime    == [value |-> Num(<<0, 0, 10>>, 0), latitude |-> Num(<<0, 0, 40>>, 0)]
RecNullTime  == [time |-> Null, created_at |-> Str("2023-11-14T22:13:20Z")]
RecBadString == [recorded_at |-> Str("yesterday"), value_rounded |-> Num(<<0, 0, 8>>, 0)]
RecFarSecs   == [time |-> Num(<<9999, 999, 999>>, 0), value |-> Num(<<0, 0, 5>>, 0)]
RecFarMillis == [time |-> Num(<<9999999, 999, 0>>, 0), value |-> Num(<<0, 0, 5>>, 0)]

RawRecords ==
    { RecSeconds, RecMillis, RecFloat, RecIso, RecNoTime, RecNullTime,
      RecBadString, RecFarSecs, RecFarMillis }

\* Measurement lists a probe of the run may get back.
ProbeLists ==
    { <<>>, <<RecIso, RecNoTime, RecSeconds>>, <<RecIso, RecFarSecs>> }

\* geocoding: no hit, or the first hit's coordinates.
GeoHits == { <<>>, <<[lat |-> 40, lon |-> -74]>> }

\* ------------------------------------------------------------ discovery
sensor_names == <<"AirBeam3-PM2.5", "AirBeam2-PM2.5", "AirBeam-PM2.5">>
day_windows  == <<7, 30, 90>>
kinds        == <<"active", "dormant">>

\* str(days) + "d" of the f-string.
DaysStr(days) ==
    CASE days = 7 -> "7d" [] days = 30 -> "30d" [] days = 90 -> "90d"

\* Earth radius in km.
R == 6371

\* Angles are whole micro-degrees; math.degrees of one radian.
MicroDegPerRadian == 57295780

\* 1000 * math.cos(math.radians(lat)) for the whole-degree latitudes used,
\* rounded; cos is even.
CosMilli(lat) ==
    LET a == IF lat < 0 THEN -lat ELSE lat
    IN CASE a = 0 -> 1000 [] a = 40 -> 766 [] a = 45 -> 707
         [] a = 60 -> 500 [] a = 89 -> 17

\* Mutant: the longitudes are returned east first.
calculate_bounding_boxEastFirst(lat, lon, radius_km) ==
    LET delta_lat == radius_km * (MicroDegPerRadian \div R)
        delta_lon == (delta_lat * 1000) \div CosMilli(lat)
    IN <<lon * 1000000 + delta_lon, lon * 1000000 - delta_lon,
         lat * 1000000 - delta_lat, lat * 1000000 + delta_lat>>

\* calculate_bounding_box: (west, east, south, north) in micro-degrees.
\* delta_lat = radius_km / R and delta_lon = radius_km / (R * cos(lat_rad))
\* are radians in the code and micro-degrees here; nothing is clamped or
\* wrapped.
calculate_bounding_box(lat, lon, radius_km) ==
    LET delta_lat == radius_km * (MicroDegPerRadian \div R)
        delta_lon == (delta_lat * 1000) \div CosMilli(lat)
        north == lat * 1000000 + delta_lat
        south == lat * 1000000 - delta_lat
        east  == lon * 1000000 + delta_lon
        west  == lon * 1000000 - delta_lon
    IN <<west, east, south, north>>

\* next((s for s in sessions if s.get("type") == "FixedSession"), None),
\* then sessions[0] if sessions else None.
RECURSIVE FirstFixed(_)
FirstFixed(sessions) ==
    IF sessions = <<>> THEN <<>>
    ELSE IF Head(sessions).type = "FixedSession" THEN <<Head(sessions)>>
    ELSE FirstFixed(Tail(sessions))

\* Mutant: the type of the sessions is ignored.
PickFirstListed(sessions) == IF sessions # <<>> THEN <<sessions[1]>> ELSE <<>>

PickFromList(sessions) ==
    IF FirstFixed(sessions) # <<>> THEN FirstFixed(sessions)
    ELSE IF sessions # <<>> THEN <<sessions[1]>>
    ELSE <<>>

\* Mutant: only the id field is looked at (s0.get("id")).
MapstyleSidIdOnly(s0) ==
    IF s0.isdict /\ "id" \in DOMAIN s0.d THEN s0.d.id ELSE "None"

\* sid normalisation of the first session of a mapstyle answer.
MapstyleSid(s0) ==
    IF s0.isdict /\ "id" \in DOMAIN s0.d THEN s0.d.id
    ELSE IF s0.isdict
         THEN (IF "session_id" \in DOMAIN s0.d THEN s0.d.session_id ELSE "None")
         ELSE s0.bare

\* Mutant: the tag names the preferred sensor, not the one that matched.
MapstyleTagFirstSensor(kind, days, sensor) ==
    <<"mapstyle", kind, DaysStr(days), sensor_names[1]>>

\* f"mapstyle:{kind}:{days}d:{sensor}"
MapstyleTag(kind, days, sensor) == <<"mapstyle", kind, DaysStr(days), sensor>>

\* ------------------------------------------------- streams and measurements
LOOKBACKS_H == <<24, 168, 720, 2160, 4320, 8760>>

\* "PM2.5" in name, and the code-point order of the names that occur.
PM25Names == {"AirBeam3-PM2.5"}
LexRank(name) ==
    CASE name = "" -> 0 [] name = "AirBeam3-F" -> 1 [] name = "AirBeam3-PM2.5" -> 2

\* s.get("sensor_name") or ""
SensorNameOrEmpty(s) ==
    IF "sensor_name" \in DOMAIN s /\ s.sensor_name # <<>> THEN s.sensor_name[1] ELSE ""

\* The sort key of main, lines 287-290: (0 or 1, s.get("sensor_name", "")),
\* whose second part is None (<<>>) for a JSON null.
KeyGroup(s) == IF SensorNameOrEmpty(s) \in PM25Names THEN 0 ELSE 1
KeyName(s)  == IF "sensor_name" \in DOMAIN s THEN s.sensor_name ELSE <<"">>

\* Tuple comparison a < b of two keys. With equal first parts the second
\* parts are compared: None < str is a TypeError, None < None is not reached
\* (the tuples are equal).
KeyRaises(a, b) ==
    /\ KeyGroup(a) = KeyGroup(b)
    /\ (KeyName(a) = <<>>) # (KeyName(b) = <<>>)
KeyLess(a, b) ==
    \/ KeyGroup(a) < KeyGroup(b)
    \/ /\ KeyGroup(a) = KeyGroup(b)
       /\ KeyName(a) # <<>> /\ KeyName(b) # <<>>
       /\ LexRank(KeyName(a)[1]) < LexRank(KeyName(b)[1])

\* sorted() is stable: an element goes after the elements that are not
\* greater than it.
RECURSIVE InsertByKey(_, _)
InsertByKey(x, sq) ==
    IF sq = <<>> THEN <<x>>
    ELSE IF KeyLess(x, Head(sq)) THEN <<x>> \o sq
    ELSE <<Head(sq)>> \o InsertByKey(x, Tail(sq))

RECURSIVE StableSort(_)
StableSort(l) ==
    IF l = <<>> THEN <<>>
    ELSE InsertByKey(l[Len(l)], StableSort(SubSeq(l, 1, Len(l) - 1)))

\* sorted(streams, key=...): the sorted list, or a TypeError. A sort cannot
\* place a null-named stream among string-named streams of its group
\* without comparing it with one of them.
SortStreams(l) ==
    IF \E i, j \in 1..Len(l) : KeyRaises(l[i], l[j])
    THEN [raised |-> TRUE, list |-> <<>>]
    ELSE [raised |-> FALSE, list |-> StableSort(l)]

\* ------------------------------------------------------------ normalisation
time_keys  == <<"time", "measured_at", "timestamp", "recorded_at", "created_at">>
value_keys == <<"value", "value_calibrated", "value_ugm3", "value_rounded",
                "measurement_value">>

\* Results of to_datetime_any: an instant, NaT, or pandas' OutOfBoundsDatetime.
\* An instant is <<w, x, y, z>>: ((w*1000 + x)*1000 + y)*1000 + z milliseconds
\* since the epoch, with x, y, z < 1000.
NaT         == [k |-> "NaT", i |-> <<0, 0, 0, 0>>]
OutOfBounds == [k |-> "raise", i |-> <<0, 0, 0, 0>>]
Instant(i)  == [k |-> "ts", i |-> i]

\* pd.Timestamp.max, 2262-04-11 23:47:16.854 UTC (9223372036854 ms): the
\* last millisecond an int64 count of nanoseconds holds. pandas 1.x and 2.x
\* convert a number with a unit to nanoseconds and raise beyond this.
TimestampMax == <<9223, 372, 36, 854>>

InstLess(a, b) ==
    \E d \in 1..4 : a[d] < b[d] /\ \A e \in 1..(d - 1) : a[e] = b[e]

\* The instant of x seconds, and of x milliseconds.
SecondsToInstant(n) == <<n[1], n[2], n[3], 0>>
MillisToInstant(n)  == <<n[1] \div 1000, n[1] % 1000, n[2], n[3]>>

\* pd.to_datetime(x, unit=unit, utc=True): errors is left at "raise".
FromUnit(n, unit) ==
    LET i == IF unit = "ms" THEN MillisToInstant(n) ELSE SecondsToInstant(n)
    IN IF InstLess(TimestampMax, i) THEN OutOfBounds ELSE Instant(i)

\* pd.to_datetime(x, utc=True, errors="coerce") of a string.
ParseIso(str) ==
    CASE str = "2023-11-14T22:13:20Z" -> Instant(<<1700, 0, 0, 0>>)
      [] str = "2023-11-14T22:14:20Z" -> Instant(<<1700, 0, 60, 0>>)
      [] OTHER -> NaT

\* x > 10_000_000_000
AboveThreshold(n) ==
    \/ n[1] > 10000
    \/ n[1] = 10000 /\ (n[2] > 0 \/ n[3] > 0)

\* "ms" if x > 10_000_000_000 else "s"
UnitOf(n) == IF AboveThreshold(n) THEN "ms" ELSE "s"

\* int(x) drops the fraction of a float.
to_datetime_any(x) ==
    IF x.k = "null" THEN NaT
    ELSE IF x.k = "num" THEN FromUnit(x.n, UnitOf(x.n))
    ELSE ParseIso(x.s)

\* next((m[k] for k in keys if k in m), None)
RECURSIVE FirstKey(_, _)
FirstKey(m, keys) ==
    IF keys = <<>> THEN Null
    ELSE IF Head(keys) \in DOMAIN m THEN m[Head(keys)]
    ELSE FirstKey(m, Tail(keys))

\* row = {"time": t, "value": v}; row.update(m)
Row(m) ==
    [k \in DOMAIN m \cup {"time", "value"} |->
        IF k \in DOMAIN m THEN m[k]
        ELSE IF k = "time" THEN FirstKey(m, time_keys)
        ELSE FirstKey(m, value_keys)]

\* A DataFrame (its rows), or an exception.
Frame(rows) == [raised |-> FALSE, rows |-> rows]
Raised      == [raised |-> TRUE, rows |-> <<>>]

\* coerce_df: the rows with their time parsed; an empty frame without
\* columns for no measurements.
coerce_df(measurements) ==
    IF measurements = <<>> THEN Frame(<<>>)
    ELSE LET parsed == [i \in 1..Len(measurements) |->
                          [Row(measurements[i]) EXCEPT
                              !["time"] = to_datetime_any(@)]]
         IN IF \E i \in 1..Len(measurements) : parsed[i]["time"].k = "raise"
            THEN Raised
            ELSE Frame(parsed)

\* df.dropna(subset=["time"]); a frame without that column is a KeyError.
HasTime(row) == row["time"].k # "NaT"
\* Mutant: rows without a time are kept.
dropnaKeepsAll(df) ==
    IF df.raised \/ df.rows = <<>> THEN Raised
    ELSE Frame(df.rows)

dropna(df) ==
    IF df.raised \/ df.rows = <<>> THEN Raised
    ELSE Frame(SelectSeq(df.rows, HasTime))

\* df.sort_values("time"): the default kind, quicksort, promises no order
\* among rows of equal time, so every time-ordered arrangement is possible.
TimeOrders(rows) ==
    { p \in [1..Len(rows) -> 1..Len(rows)] :
        /\ \A i, j \in 1..Len(rows) : i # j => p[i] # p[j]
        /\ \A i, j \in 1..Len(rows) :
              i < j => ~InstLess(rows[p[j]]["time"].i, rows[p[i]]["time"].i) }
\* Mutant: the rows come out newest first (ascending=False).
sort_valuesDescending(df) ==
    IF df.raised THEN {Raised}
    ELSE { Frame([i \in 1..Len(df.rows) |-> df.rows[p[Len(df.rows) + 1 - i]]]) :
             p \in TimeOrders(df.rows) }

sort_values(df) ==
    IF df.raised THEN {Raised}
    ELSE { Frame([i \in 1..Len(df.rows) |-> df.rows[p[i]]]) : p \in TimeOrders(df.rows) }

\* main, lines 308-309.
Normalize(measurements) == sort_values(dropna(coerce_df(measurements)))

VARIABLES
    pc,             \* where main() stands
    outcome,        \* how the run ended ("running" until it has)
    bbox,           \* <<>> or <<box>>
    geolog,         \* geocoding requests issued, with their answers
    v3log,          \* /api/v3/sessions requests issued, with their answers
    mslog,          \* mapstyle requests issued, with their answers
    ki, di, si,     \* loop positions of pick_fixed_session_mapstyle
    session,        \* <<>> or <<dict>>
    picked_via,     \* <<>> or the tag
    streamlog,      \* stream listing requests issued, with their answers
    streams_sorted, \* the ranked streams
    pi, hi,         \* loop positions of find_stream_with_data
    probelog,       \* measurement probes issued, with their answers
    stream_id,      \* <<>> or <<id>> of the stream that had data
    stream_meta,    \* <<>> or <<descriptor>> of that stream
    measurements,   \* the measurements find_stream_with_data returned
    held,           \* <<>>, or for each ranked stream the number of the smallest
                    \* window in which the provider holds data for it
    table,          \* <<>> or <<rows>> of the saved table
    nin, nout       \* a function on its own: its input, <<>> or <<result>>

discovery == <<bbox, geolog, v3log, mslog, ki, di, si, session, picked_via>>
resolution == <<streamlog, streams_sorted, pi, hi, probelog, stream_id, stream_meta,
                measurements, held>>
vars == <<pc, outcome, discovery, resolution, table, nin, nout>>

InitRun ==
    /\ outcome = "running"
    /\ bbox = <<>>
    /\ geolog = <<>>
    /\ v3log = <<>>
    /\ mslog = <<>>
    /\ ki = 1 /\ di = 1 /\ si = 1
    /\ session = <<>>
    /\ picked_via = <<>>
    /\ streamlog = <<>>
    /\ streams_sorted = <<>>
    /\ pi = 1 /\ hi = 1
    /\ probelog = <<>>
    /\ stream_id = <<>>
    /\ stream_meta = <<>>
    /\ measurements = <<>>
    /\ held = <<>>
    /\ table = <<>>

Init ==
    /\ pc = "input"
    /\ InitRun
    /\ nin = <<>>
    /\ nout = <<>>

\* Mutant: the exception is swallowed and the step is tried again.
AbortSwallowed(how) == UNCHANGED <<pc, outcome>>

\* An exception leaves main(): the process ends with a traceback.
Abort(how) ==
    /\ pc' = "done"
    /\ outcome' = how

\* main, lines 247-251: the prompt.
ReadCity ==
    /\ pc = "input"
    /\ \E empty \in BOOLEAN :
          pc' = IF empty THEN "v3_first" ELSE "geocode"
    /\ UNCHANGED <<outcome, discovery, resolution, table, nin, nout>>

\* geocode_city and main, lines 253-261.
Geocode ==
    /\ pc = "geocode"
    /\ \E resp \in Answers(GeoHits) :
          /\ geolog' = Append(geolog, resp)
          /\ IF resp = Fail
             THEN Abort("aborted") /\ UNCHANGED bbox
             ELSE /\ bbox' = IF resp.body = <<>> THEN <<>>
                             ELSE <<calculate_bounding_box(resp.body[1].lat,
                                                           resp.body[1].lon, 50)>>
                  /\ pc' = "v3_first"
                  /\ UNCHANGED outcome
    /\ UNCHANGED <<v3log, mslog, ki, di, si, session, picked_via>>
    /\ UNCHANGED <<resolution, table, nin, nout>>

\* Mutant: main enters the cascade whatever the listing gave.
ReturnV3AlwaysCascade(s) ==
    /\ session' = s
    /\ picked_via' = <<"v3">>
    /\ pc' = "mapstyle"
    /\ UNCHANGED outcome

\* pick_fixed_session_v3 returns `s` to main, lines 264-266, and with a
\* session main goes on to line 279.
ReturnV3(s) ==
    /\ session' = s
    /\ picked_via' = <<"v3">>
    /\ pc' = IF s = <<>> THEN "mapstyle" ELSE "streams"
    /\ UNCHANGED outcome

\* pick_fixed_session_v3, lines 91-96: the bounding-box listing.
ListV3First ==
    /\ pc = "v3_first"
    /\ \E resp \in Answers(V3Lists) :
          /\ v3log' = Append(v3log, [wide |-> FALSE, bbox |-> bbox, resp |-> resp])
          /\ IF resp = Fail
             THEN Abort("aborted") /\ UNCHANGED <<session, picked_via>>
             ELSE IF PickFromList(resp.body) # <<>>
                  THEN ReturnV3(PickFromList(resp.body))
                  ELSE pc' = "v3_wide" /\ UNCHANGED <<outcome, session, picked_via>>
    /\ UNCHANGED <<bbox, geolog, mslog, ki, di, si, resolution, table, nin, nout>>

\* pick_fixed_session_v3, lines 99-109: the listing over the last 365 days.
ListV3Wide ==
    /\ pc = "v3_wide"
    /\ \E resp \in Answers(V3Lists) :
          /\ v3log' = Append(v3log, [wide |-> TRUE, bbox |-> bbox, resp |-> resp])
          /\ IF resp = Fail
             THEN Abort("aborted") /\ UNCHANGED <<session, picked_via>>
             ELSE ReturnV3(PickFromList(resp.body))
    /\ UNCHANGED <<bbox, geolog, mslog, ki, di, si, resolution, table, nin, nout>>

\* pick_fixed_session_mapstyle returns `s` to main, lines 267-277: nothing
\* found, or on to the streams.
ReturnMapstyle(s) ==
    /\ session' = s
    /\ picked_via' = IF s = <<>> THEN <<>> ELSE s[1].picked_via
    /\ IF s = <<>>
       THEN pc' = "done" /\ outcome' = "no_session"
       ELSE pc' = "streams" /\ UNCHANGED outcome

\* The innermost loop position advances first, then the middle, then the
\* outermost (the three nested for loops, lines 119-121).
\* Mutant: the cascade gives up after the first kind.
LoopDoneFirstKind == di = Len(day_windows) /\ si = Len(sensor_names)

LoopDone == ki = Len(kinds) /\ di = Len(day_windows) /\ si = Len(sensor_names)

\* Mutant: the sensor loop is outside the window loop.
AdvanceLoopSensorOuter ==
    IF di < Len(day_windows)
    THEN di' = di + 1 /\ UNCHANGED <<ki, si>>
    ELSE IF si < Len(sensor_names)
         THEN di' = 1 /\ si' = si + 1 /\ UNCHANGED ki
         ELSE di' = 1 /\ si' = 1 /\ ki' = ki + 1

AdvanceLoop ==
    IF si < Len(sensor_names)
    THEN si' = si + 1 /\ UNCHANGED <<ki, di>>
    ELSE IF di < Len(day_windows)
         THEN si' = 1 /\ di' = di + 1 /\ UNCHANGED ki
         ELSE si' = 1 /\ di' = 1 /\ ki' = ki + 1

\* pick_fixed_session_mapstyle: one pass of the loop body, lines 122-151,
\* and line 152 when the loops are exhausted.
MapstyleStep ==
    /\ pc = "mapstyle"
    /\ \E resp \in Answers(MsLists) :
          /\ mslog' = Append(mslog, [kind |-> kinds[ki], days |-> day_windows[di],
                                     sensor |-> sensor_names[si], bbox |-> bbox,
                                     resp |-> resp])
          /\ IF resp = Fail
             THEN Abort("aborted") /\ UNCHANGED <<session, picked_via, ki, di, si>>
             ELSE IF resp.body # <<>>
                  THEN /\ ReturnMapstyle(<<[id |-> MapstyleSid(resp.body[1]),
                                            picked_via |-> MapstyleTag(kinds[ki],
                                                day_windows[di], sensor_names[si])]>>)
                       /\ UNCHANGED <<ki, di, si>>
                  ELSE IF LoopDone
                       THEN ReturnMapstyle(<<>>) /\ UNCHANGED <<ki, di, si>>
                       ELSE AdvanceLoop /\ UNCHANGED <<pc, outcome, session, picked_via>>
    /\ UNCHANGED <<bbox, geolog, v3log, resolution, table, nin, nout>>

\* get_streams and main, lines 279-291: the listing and its ranking.
GetStreams ==
    /\ pc = "streams"
    /\ \E resp \in Answers(StreamLists) :
          /\ streamlog' = Append(streamlog, [session_id |-> session[1].id, resp |-> resp])
          /\ IF resp = Fail
             THEN Abort("aborted") /\ UNCHANGED streams_sorted
             ELSE IF resp.body = <<>>
                  THEN /\ pc' = "done" /\ outcome' = "no_streams"
                       /\ UNCHANGED streams_sorted
                  ELSE IF SortStreams(resp.body).raised
                       THEN Abort("crashed") /\ UNCHANGED streams_sorted
                       ELSE /\ streams_sorted' = SortStreams(resp.body).list
                            /\ pc' = "probe"
                            /\ UNCHANGED outcome
    /\ UNCHANGED <<discovery, pi, hi, probelog, stream_id, stream_meta, measurements>>
    /\ UNCHANGED <<held, table, nin, nout>>

\* find_stream_with_data returns to main, lines 294-312: no data, or
\* normalise, drop, sort and save.
ReturnStream(sid, s, ms) ==
    /\ stream_id' = sid
    /\ stream_meta' = s
    /\ measurements' = ms
    /\ pc' = "done"
    /\ IF ms = <<>>
       THEN outcome' = "no_data" /\ UNCHANGED table
       ELSE \E df \in Normalize(ms) :
               IF df.raised
               THEN outcome' = "crashed" /\ UNCHANGED table
               ELSE outcome' = "table" /\ table' = <<df.rows>>

\* Mutant: the test of the probe's answer is inverted.
HasDataInverted(ms) == ms = <<>>

\* `if ms:` of line 182.
HasData(ms) == ms # <<>>

\* The window advances first, then the stream (the two nested for loops,
\* lines 175-177).
\* Mutant: only the first stream is probed.
ProbeLoopDoneFirstStream == hi = Len(LOOKBACKS_H)

ProbeLoopDone == pi = Len(streams_sorted) /\ hi = Len(LOOKBACKS_H)

\* Mutant: the window loop is outside the stream loop.
AdvanceProbeWindowOuter ==
    IF pi < Len(streams_sorted)
    THEN pi' = pi + 1 /\ UNCHANGED hi
    ELSE pi' = 1 /\ hi' = hi + 1

AdvanceProbe ==
    IF hi < Len(LOOKBACKS_H)
    THEN hi' = hi + 1 /\ UNCHANGED pi
    ELSE hi' = 1 /\ pi' = pi + 1

\* get_fixed_measurements(sid, h): what the provider may answer to the
\* probe of stream number pi at window number hi. Where the data it holds
\* are fixed, it answers with measurements exactly when the window reaches
\* back to them; a window that is longer contains the shorter ones.
ProbeAnswers ==
    IF held = <<>> THEN Answers(ProbeLists)
    ELSE IF hi >= held[pi] THEN Answers(ProbeLists \ {<<>>})
    ELSE Answers({<<>>})

\* find_stream_with_data: one pass of the loop body, lines 176-184, and
\* line 185 when the loops are exhausted.
Probe ==
    /\ pc = "probe"
    /\ LET s == streams_sorted[pi] IN
       \E resp \in ProbeAnswers :
          /\ probelog' = Append(probelog, [stream_id |-> s.stream_id,
                                           hours |-> LOOKBACKS_H[hi], resp |-> resp])
          /\ IF resp = Fail
             THEN /\ Abort("aborted")
                  /\ UNCHANGED <<pi, hi, stream_id, stream_meta, measurements, table>>
             ELSE IF HasData(resp.body)
                  THEN /\ ReturnStream(<<s.stream_id>>, <<s>>, resp.body)
                       /\ UNCHANGED <<pi, hi>>
                  ELSE IF ProbeLoopDone
                       THEN /\ ReturnStream(<<>>, <<>>, <<>>)
                            /\ UNCHANGED <<pi, hi>>
                       ELSE /\ AdvanceProbe
                            /\ UNCHANGED <<pc, outcome, stream_id, stream_meta,
                                           measurements, table>>
    /\ UNCHANGED <<discovery, streamlog, streams_sorted, held, nin, nout>>

Next ==
    \/ ReadCity
    \/ Geocode
    \/ ListV3First
    \/ ListV3Wide
    \/ MapstyleStep
    \/ GetStreams
    \/ Probe

Spec == Init /\ [][Next]_vars

\* ------------------------------------------------ the normaliser on its own
\* main only normalises a non-empty measurement list.
RECURSIVE ListsOver(_, _)
ListsOver(S, n) ==
    IF n = 0 THEN {<<>>}
    ELSE ListsOver(S, n - 1) \cup
         { Append(l, x) : l \in { m \in ListsOver(S, n - 1) : Len(m) = n - 1 }, x \in S }

InitNorm ==
    /\ pc = "normalizer"
    /\ InitRun
    /\ nin \in ListsOver(RawRecords, MaxLen) \ {<<>>}
    /\ nout = <<>>

ApplyNormalize ==
    /\ pc = "normalizer"
    /\ nout = <<>>
    /\ \E df \in Normalize(nin) : nout' = <<df>>
    /\ UNCHANGED <<pc, outcome, discovery, resolution, table, nin>>

NextNorm == ApplyNormalize

SpecNorm == InitNorm /\ [][NextNorm]_vars
\* ------------------------------------------- to_datetime_any on its own
\* Integers around the seconds/milliseconds threshold and around the end of
\* the nanosecond range, each with its thousandfold.
SampleInts ==
    { <<a, b, c>> : a \in {0, 1000, 1700, 9223, 9999, 10000},
                    b \in {0, 372, 999}, c \in {0, 36, 37, 999} }
Times1000(n) == <<n[1] * 1000 + n[2], n[3], 0>>

\* Columns of raw time values: x seconds beside 1000*x, a float, a null, strings.
TimeColumns ==
    { <<Num(n, 0), Num(Times1000(n), 0)>> : n \in SampleInts }
    \cup { <<Num(n, 5)>> : n \in SampleInts }
    \cup { <<Null>>, <<Str("2023-11-14T22:13:20Z")>>, <<Str("yesterday")>> }

InitTime ==
    /\ pc = "to_datetime"
    /\ InitRun
    /\ nin \in TimeColumns
    /\ nout = <<>>

\* df["time"].apply(to_datetime_any), line 239.
ApplyToDatetime ==
    /\ pc = "to_datetime"
    /\ nout = <<>>
    /\ nout' = <<[i \in 1..Len(nin) |-> to_datetime_any(nin[i])]>>
    /\ UNCHANGED <<pc, outcome, discovery, resolution, table, nin>>

NextTime == ApplyToDatetime

SpecTime == InitTime /\ [][NextTime]_vars

\* Every request returns or fails (each has a timeout), and main goes on
\* with the answer: a step that can be taken is taken.
SpecLive == Spec /\ WF_vars(Next)

\* --------------------------------------- find_stream_with_data on its own
\* Resolution over a provider whose data are fixed: the session came from
\* the first listing, its streams are listed and ranked, and for each
\* ranked stream the provider holds data from the 24-hour window on, from
\* the 7-day window on, from the 180-day window on, or in no window.
FirstWindows == {1, 2, 5, Len(LOOKBACKS_H) + 1}
RankableLists == { l \in StreamLists : l # <<>> /\ ~SortStreams(l).raised }

InitProbe ==
    /\ pc = "probe"
    /\ outcome = "running"
    /\ bbox = <<>> /\ geolog = <<>>
    /\ v3log = <<[wide |-> FALSE, bbox |-> <<>>,
                  resp |-> [ok |-> TRUE, body |-> <<V3Fixed, V3Mobile>>]]>>
    /\ mslog = <<>>
    /\ ki = 1 /\ di = 1 /\ si = 1
    /\ session = <<V3Fixed>>
    /\ picked_via = <<"v3">>
    /\ \E l \in RankableLists :
          /\ streamlog = <<[session_id |-> V3Fixed.id, resp |-> [ok |-> TRUE, body |-> l]]>>
          /\ streams_sorted = SortStreams(l).list
          /\ held \in [1..Len(l) -> FirstWindows]
    /\ pi = 1 /\ hi = 1
    /\ probelog = <<>>
    /\ stream_id = <<>> /\ stream_meta = <<>> /\ measurements = <<>>
    /\ table = <<>>
    /\ nin = <<>> /\ nout = <<>>

NextProbe == Probe

SpecProbe == InitProbe /\ [][NextProbe]_vars

\* --------------------------------------- calculate_bounding_box on its own
\* Non-polar latitudes and longitudes in whole degrees, radii in whole km:
\* the default 50, the 20 of other callers, 1, 0 and a negative radius.
BoxLats  == {-89, -60, -45, 0, 40, 45, 60, 89}
BoxLons  == {-180, -74, 0, 74, 180}
BoxRadii == {-50, 0, 1, 20, 50}

InitBox ==
    /\ pc = "bbox"
    /\ InitRun
    /\ nin \in [lat : BoxLats, lon : BoxLons, radius_km : BoxRadii]
    /\ nout = <<>>

ApplyBoundingBox ==
    /\ pc = "bbox"
    /\ nout = <<>>
    /\ nout' = <<calculate_bounding_box(nin.lat, nin.lon, nin.radius_km)>>
    /\ UNCHANGED <<pc, outcome, discovery, resolution, table, nin>>

NextBox == ApplyBoundingBox

SpecBox == InitBox /\ [][NextBox]_vars

\* ------------------------------------------------------------------ claims
Last(l) == l[Len(l)]
Ok(resp) == resp.ok
Empty(resp) == resp.ok /\ resp.body = <<>>
NonEmpty(resp) == resp.ok /\ resp.body # <<>>

\* The k-th combination of the documented order: kind outermost, lookback
\* days in the middle, sensor name innermost.
Combo(k) ==
    [kind   |-> <<"active", "dormant">>[((k - 1) \div 9) + 1],
     days   |-> <<7, 30, 90>>[(((k - 1) \div 3) % 3) + 1],
     sensor |-> <<"AirBeam3-PM2.5", "AirBeam2-PM2.5", "AirBeam-PM2.5">>[((k - 1) % 3) + 1]]
ComboOf(e) == [kind |-> e.kind, days |-> e.days, sensor |-> e.sensor]

\* The cascade stopped at a non-empty answer.
FoundByCascade == mslog # <<>> /\ NonEmpty(Last(mslog).resp)

\* C1: the cascade's requests follow the order kind, days, sensor; a request
\* is made only after every earlier one came back empty; and when the k-th
\* answer is the first non-empty one, exactly k requests are made and the
\* session is built from the first session of that answer.
C1_CascadeOrder ==
    /\ Len(mslog) <= 18
    /\ \A i \in 1..Len(mslog) : ComboOf(mslog[i]) = Combo(i)
    /\ \A i \in 1..(Len(mslog) - 1) : Empty(mslog[i].resp)
    /\ \A k \in 1..18 :
          (Len(mslog) >= k /\ NonEmpty(mslog[k].resp))
          => /\ Len(mslog) = k
             /\ session # <<>>
             /\ session[1].id = MapstyleSid(mslog[k].resp.body[1])
             /\ pc \notin {"mapstyle", "v3_first", "v3_wide"}

C1_Witness ==
    /\ Len(mslog) = 18
    /\ NonEmpty(mslog[18].resp)
    /\ session # <<>>
    /\ session[1].id = "s21"

\* The sensor after AirBeam2-PM2.5 is not asked for once it matched.
NoGen1ForDormant90 ==
    (ComboOf(Last(mslog)) = [kind |-> "dormant", days |-> 90, sensor |-> "AirBeam2-PM2.5"])
    => ~\E i \in 1..Len(mslog) :
           ComboOf(mslog[i]) = [kind |-> "dormant", days |-> 90, sensor |-> "AirBeam-PM2.5"]

\* C2 as stated: a session found by the cascade is tagged
\* fallback:<kind>:<days>d:<sensor> with the combination that matched, and
\* when dormant/90d/AirBeam2-PM2.5 matched, AirBeam-PM2.5 was not queried
\* for dormant/90d.
C2_TaggedFallback ==
    FoundByCascade
    => /\ picked_via = <<"fallback", Last(mslog).kind, DaysStr(Last(mslog).days),
                         Last(mslog).sensor>>
       /\ NoGen1ForDormant90

\* C2 as amended: the tag is mapstyle:<kind>:<days>d:<sensor> with the
\* combination that matched, and when dormant/90d/AirBeam2-PM2.5 matched,
\* AirBeam-PM2.5 was not queried for dormant/90d.
C2_TaggedMapstyle ==
    FoundByCascade
    => /\ picked_via = <<"mapstyle", Last(mslog).kind, DaysStr(Last(mslog).days),
                         Last(mslog).sensor>>
       /\ session # <<>> /\ session[1].picked_via = picked_via
       /\ NoGen1ForDormant90

C2_Witness ==
    /\ FoundByCascade
    /\ picked_via = <<"mapstyle", "dormant", "90d", "AirBeam2-PM2.5">>
    /\ Len(mslog) = 17

\* Eighteen requests, each with an empty session list.
AllCombosEmpty == Len(mslog) = 18 /\ \A i \in 1..18 : Empty(mslog[i].resp)

\* C3: when all 18 combinations come back empty the cascade returns None
\* after exactly 18 requests, no combination twice, and main reports that
\* no session was found without listing streams or fetching measurements.
C3_ExhaustedCascade ==
    /\ AllCombosEmpty
       => /\ session = <<>> /\ picked_via = <<>>
          /\ pc = "done" /\ outcome = "no_session"
          /\ streamlog = <<>> /\ probelog = <<>> /\ table = <<>>
    /\ \A j \in 1..Len(mslog) : \A i \in 1..(j - 1) :
          ComboOf(mslog[i]) # ComboOf(mslog[j])
    /\ outcome = "no_session" => AllCombosEmpty

C3_Witness == outcome = "no_session" /\ AllCombosEmpty /\ bbox # <<>>

\* The session the primary tier is to choose from a non-empty list.
FirstFixedOrFirst(l) ==
    IF \E i \in 1..Len(l) : l[i].type = "FixedSession"
    THEN l[CHOOSE i \in 1..Len(l) :
             /\ l[i].type = "FixedSession"
             /\ \A j \in 1..(i - 1) : l[j].type # "FixedSession"]
    ELSE l[1]

\* C4: the bounding-box listing comes first; a non-empty list gives its
\* first FixedSession, or its first session when it has none; the one-year
\* listing is requested only after an empty first list and is handled the
\* same way; the cascade is entered exactly when both lists are empty.
C4_PrimaryTier ==
    /\ Len(v3log) <= 2
    /\ v3log # <<>> => ~v3log[1].wide /\ v3log[1].bbox = bbox
    /\ Len(v3log) = 2 => v3log[2].wide /\ Empty(v3log[1].resp) /\ v3log[2].bbox = bbox
    /\ (v3log # <<>> /\ NonEmpty(Last(v3log).resp))
       => /\ session = <<FirstFixedOrFirst(Last(v3log).resp.body)>>
          /\ picked_via = <<"v3">>
          /\ mslog = <<>>
    /\ mslog # <<>> => Len(v3log) = 2 /\ Empty(v3log[1].resp) /\ Empty(v3log[2].resp)
    /\ (Len(v3log) = 2 /\ Empty(v3log[2].resp))
       => (pc = "mapstyle" /\ mslog = <<>>) \/ mslog # <<>>

C4_Witness ==
    /\ Len(v3log) = 2
    /\ v3log[2].resp.body = <<V3Mobile, V3Fixed>>
    /\ session = <<V3Fixed>>
    /\ pc = "streams"

\* C5: no probe follows a probe that returned measurements, and the stream
\* and measurements returned are those of that probe.
C5_FirstSuccessWins ==
    /\ \A i \in 1..(Len(probelog) - 1) : Empty(probelog[i].resp)
    /\ (probelog # <<>> /\ NonEmpty(Last(probelog).resp))
       => /\ stream_id = <<Last(probelog).stream_id>>
          /\ stream_meta # <<>> /\ stream_meta[1].stream_id = Last(probelog).stream_id
          /\ measurements = Last(probelog).resp.body
          /\ pc = "done"

C5_Witness ==
    /\ Len(streams_sorted) = 2
    /\ Len(probelog) = 2
    /\ NonEmpty(probelog[2].resp)
    /\ stream_id = <<streams_sorted[1].stream_id>>
    /\ pc = "done"

\* The i-th lookback window in hours; a stream named for PM2.5.
WindowHours(i) == 24 * <<1, 7, 30, 90, 180, 365>>[i]
IsPM25(st) == "sensor_name" \in DOMAIN st /\ st.sensor_name = <<"AirBeam3-PM2.5">>

\* C6: the i-th probe is for the sorted stream number ceil(i/6) at the
\* windows 24h, 7d, 30d, 90d, 180d, 365d in turn; PM2.5 streams are ahead of
\* the others; and when the eleventh probe is the first with data, the
\* result is the second stream at the 180-day window.
C6_ProbeOrder ==
    /\ \A i \in 1..Len(probelog) :
          /\ probelog[i].stream_id = streams_sorted[((i - 1) \div 6) + 1].stream_id
          /\ probelog[i].hours = WindowHours(((i - 1) % 6) + 1)
    /\ \A i, j \in 1..Len(streams_sorted) :
          i < j => ~(~IsPM25(streams_sorted[i]) /\ IsPM25(streams_sorted[j]))
    /\ streams_sorted # <<>>
       => /\ Len(streams_sorted) = Len(Last(streamlog).resp.body)
          /\ \A i \in 1..Len(streams_sorted) :
                \E j \in 1..Len(streams_sorted) :
                    Last(streamlog).resp.body[j] = streams_sorted[i]
    /\ (Len(probelog) >= 11 /\ NonEmpty(probelog[11].resp))
       => /\ Len(probelog) = 11
          /\ stream_id = <<streams_sorted[2].stream_id>>
          /\ probelog[11].hours = 4320
          /\ \A i \in 1..6 : probelog[i].stream_id = streams_sorted[1].stream_id

C6_Witness ==
    /\ Len(probelog) = 11
    /\ NonEmpty(probelog[11].resp)
    /\ stream_id = <<streams_sorted[2].stream_id>>
    /\ IsPM25(streams_sorted[1]) /\ streams_sorted[1].stream_id = 102
    /\ outcome = "table"

\* Six probes of every ranked stream, each with an empty list.
AllProbesEmpty ==
    /\ streams_sorted # <<>>
    /\ Len(probelog) = 6 * Len(streams_sorted)
    /\ \A i \in 1..Len(probelog) : Empty(probelog[i].resp)

\* C7: never more than 6 probes per listed stream; when every probe of
\* every stream comes back empty, resolution returns (None, None, []) after
\* exactly 6 per stream and the run ends with "no data", nothing normalised
\* or saved.
C7_NoData ==
    /\ Len(probelog) <= 6 * Len(streams_sorted)
    /\ streamlog # <<>> /\ Ok(Last(streamlog).resp)
       => Len(probelog) <= 6 * Len(Last(streamlog).resp.body)
    /\ AllProbesEmpty
       => /\ stream_id = <<>> /\ stream_meta = <<>> /\ measurements = <<>>
          /\ pc = "done" /\ outcome = "no_data"
          /\ table = <<>>
    /\ outcome = "no_data" => AllProbesEmpty

C7_Witness == outcome = "no_data" /\ Len(streams_sorted) = 2 /\ Len(probelog) = 12

\* A request of the log failed; the requests of the run so far.
FailedIn(log) == \E i \in 1..Len(log) : ~Ok(log[i].resp)
GeoFailed == \E i \in 1..Len(geolog) : ~Ok(geolog[i])
Requests ==
    Len(geolog) + Len(v3log) + Len(mslog) + Len(streamlog) + Len(probelog)

\* C8: a failed request is the last request of the run: the run is aborted,
\* nothing is requested after it, it is not tried again, and no session
\* (for a failure during discovery), stream or table comes out.
C8_FailFast ==
    /\ \A i \in 1..Len(geolog) : ~Ok(geolog[i]) => i = Len(geolog)
    /\ \A i \in 1..Len(v3log) : ~Ok(v3log[i].resp) => i = Len(v3log)
    /\ \A i \in 1..Len(mslog) : ~Ok(mslog[i].resp) => i = Len(mslog)
    /\ \A i \in 1..Len(streamlog) : ~Ok(streamlog[i].resp) => i = Len(streamlog)
    /\ \A i \in 1..Len(probelog) : ~Ok(probelog[i].resp) => i = Len(probelog)
    /\ GeoFailed => Requests = Len(geolog)
    /\ FailedIn(v3log) => Requests = Len(geolog) + Len(v3log)
    /\ FailedIn(mslog) => Requests = Len(geolog) + Len(v3log) + Len(mslog)
    /\ FailedIn(streamlog) => probelog = <<>>
    /\ (GeoFailed \/ FailedIn(v3log) \/ FailedIn(mslog)) => session = <<>>
    /\ (GeoFailed \/ FailedIn(v3log) \/ FailedIn(mslog) \/ FailedIn(streamlog))
       => streams_sorted = <<>>
    /\ (GeoFailed \/ FailedIn(v3log) \/ FailedIn(mslog) \/ FailedIn(streamlog)
            \/ FailedIn(probelog))
       => /\ pc = "done" /\ outcome = "aborted"
          /\ stream_id = <<>> /\ stream_meta = <<>> /\ measurements = <<>>
          /\ table = <<>>

C8_Witness ==
    /\ Len(mslog) = 5 /\ ~Ok(mslog[5].resp)
    /\ outcome = "aborted"

\* The record has none of the time keys; the row comes from the record.
LacksTimeKeys(m) ==
    DOMAIN m \cap {"time", "measured_at", "timestamp", "recorded_at", "created_at"} = {}
RowOf(row, m) ==
    /\ DOMAIN m \subseteq DOMAIN row
    /\ \A key \in DOMAIN m \ {"time"} : row[key] = m[key]
    /\ DOMAIN row \subseteq DOMAIN m \cup {"time", "value"}

\* The second half of C9 on its own.
NoTimeDropped ==
    nout # <<>>
    => \A i \in 1..Len(nin) :
          LacksTimeKeys(nin[i])
          => \A j \in 1..Len(nout[1].rows) : ~RowOf(nout[1].rows[j], nin[i])

\* C9: normalisation never raises, and a record without any of the time
\* keys time, measured_at, timestamp, recorded_at, created_at is not in
\* the output.
C9_TotalNormalizer ==
    /\ nout # <<>> => ~nout[1].raised
    /\ NoTimeDropped

\* A column <<s, 1000*s>> with s of 10 digits has been parsed.
TenDigits(n) == n[1] >= 1000 /\ n[1] <= 9999
SecondsBesideMillis ==
    /\ pc = "to_datetime" /\ nout # <<>>
    /\ Len(nin) = 2
    /\ TenDigits(nin[1].n)

\* C10: a 10-digit number s is taken as seconds, 1000*s as milliseconds,
\* and both give the same instant.
C10_SecondsMillisAgree ==
    SecondsBesideMillis
    => /\ nout[1][1] = Instant(<<nin[1].n[1], nin[1].n[2], nin[1].n[3], 0>>)
       /\ nout[1][2] = nout[1][1]

\* Within the nanosecond range the two readings do agree.
InRangeSecondsMillisAgree ==
    (SecondsBesideMillis /\ ~InstLess(TimestampMax, SecondsToInstant(nin[1].n)))
    => /\ nout[1][1] = Instant(<<nin[1].n[1], nin[1].n[2], nin[1].n[3], 0>>)
       /\ nout[1][2] = nout[1][1]

\* The parsed time of a raw record, and the raw list has only valid times,
\* each later than the one before.
ParsedTime(m) == to_datetime_any(Row(m)["time"])
ValidIncreasing(l) ==
    /\ \A i \in 1..Len(l) : ParsedTime(l[i]).k = "ts"
    /\ \A i \in 1..(Len(l) - 1) : InstLess(ParsedTime(l[i]).i, ParsedTime(l[i + 1]).i)

\* C11: a list of N raw records whose timestamps are all valid and strictly
\* increasing is normalised to exactly N records in the order of the input,
\* each the record it came from with its time parsed.
C11_RoundTrip ==
    (pc = "normalizer" /\ nout # <<>> /\ ValidIncreasing(nin))
    => /\ ~nout[1].raised
       /\ Len(nout[1].rows) = Len(nin)
       /\ \A i \in 1..Len(nin) :
             /\ RowOf(nout[1].rows[i], nin[i])
             /\ nout[1].rows[i]["time"] = ParsedTime(nin[i])

C11_Witness ==
    /\ pc = "normalizer" /\ nout # <<>>
    /\ ValidIncreasing(nin)
    /\ nin = <<RecSeconds, RecFloat, RecIso>>
    /\ Len(nout[1].rows) = 3

\* The row a raw record becomes, and the records of a list whose time parsed.
ParsedRow(m) == [Row(m) EXCEPT !["time"] = to_datetime_any(@)]
ParsedIndexes(l) == { i \in 1..Len(l) : ParsedTime(l[i]).k = "ts" }

\* A table was produced from the raw list.
TableProduced == pc = "normalizer" /\ nout # <<>> /\ ~nout[1].raised

\* C12: in a table that is produced every row has a parsed, non-null
\* time, the rows are in non-decreasing time order, and the rows are, one
\* for one, the raw records whose time parsed: none is lost or merged,
\* equal times and equal records included, and none is added.
C12_CanonicalTable ==
    TableProduced
    => LET rows == nout[1].rows IN
       /\ \A j \in 1..Len(rows) : rows[j]["time"].k = "ts"
       /\ \A j \in 1..(Len(rows) - 1) :
             ~InstLess(rows[j + 1]["time"].i, rows[j]["time"].i)
       /\ Len(rows) = Cardinality(ParsedIndexes(nin))
       /\ \E p \in [1..Len(rows) -> ParsedIndexes(nin)] :
             /\ \A i, j \in 1..Len(rows) : i # j => p[i] # p[j]
             /\ \A j \in 1..Len(rows) : rows[j] = ParsedRow(nin[p[j]])

\* Two records of one instant beside a record whose time does not parse.
C12_Witness ==
    /\ TableProduced
    /\ nin = <<RecMillis, RecBadString, RecSeconds>>
    /\ Len(nout[1].rows) = 2
    /\ nout[1].rows[1]["time"] = nout[1].rows[2]["time"]

\* A box was computed; its corners are ordered.
BoxComputed == pc = "bbox" /\ nout # <<>>
BoxOrdered(box) == box[1] < box[2] /\ box[3] < box[4]

\* C13 as stated: for every latitude that is not polar, every longitude and
\* every radius the box has west < east and south < north.
C13_BoxOrderedAnyRadius == BoxComputed => BoxOrdered(nout[1])

\* C13 as amended: for every latitude that is not polar, every longitude
\* and every radius above zero the box has west < east and south < north; a
\* radius of zero gives west = east and south = north.
C13_BoxOrderedPositiveRadius ==
    /\ (BoxComputed /\ nin.radius_km > 0) => BoxOrdered(nout[1])
    /\ (BoxComputed /\ nin.radius_km = 0)
       => nout[1][1] = nout[1][2] /\ nout[1][3] = nout[1][4]

C13_Witness ==
    /\ BoxComputed
    /\ nin = [lat |-> 89, lon |-> 180, radius_km |-> 1]
    /\ BoxOrdered(nout[1])

\* A column of raw time values has been parsed; 10**10 <= x.
ColumnParsed == pc = "to_datetime" /\ nout # <<>>
AtOrAboveTenBillion(n) == n[1] >= 10000

\* The reading C14 gives a number: seconds below 10**10, milliseconds from
\* 10**10 on.
ReadingOfC14(n) ==
    IF AtOrAboveTenBillion(n) THEN MillisToInstant(n) ELSE SecondsToInstant(n)

\* C14: a number below 10,000,000,000 is read as seconds since the epoch
\* and a number at or above 10,000,000,000, that number itself included,
\* as milliseconds. Stated for the numbers whose reading lies within the
\* range of a pandas Timestamp, so that only the choice of unit is judged.
C14_ThresholdInclusive ==
    ColumnParsed
    => \A i \in 1..Len(nin) :
          (nin[i].k = "num" /\ ~InstLess(TimestampMax, ReadingOfC14(nin[i].n)))
          => nout[1][i] = Instant(ReadingOfC14(nin[i].n))

\* What the code does at the threshold: 10**10 itself is read as seconds,
\* which is beyond the Timestamp range.
ThresholdReadAsSeconds ==
    (ColumnParsed /\ nin[1].k = "num" /\ nin[1].n = <<10000, 0, 0>>)
    => nout[1][1] = OutOfBounds

\* The stream listing came back with streams; l is a rearrangement of m.
StreamsListed == streamlog # <<>> /\ NonEmpty(Last(streamlog).resp)
PermutationOf(l, m) ==
    /\ Len(l) = Len(m)
    /\ \E p \in [1..Len(l) -> 1..Len(l)] :
          /\ \A i, j \in 1..Len(l) : i # j => p[i] # p[j]
          /\ \A i \in 1..Len(l) : l[i] = m[p[i]]

\* C15: whatever descriptors the listing holds, a missing or null sensor
\* name included, the ranked list is a permutation of the listing in which
\* every stream named for PM2.5 precedes every other stream and each of the
\* two groups is in lexical order of sensor name.
C15_StreamRanking ==
    StreamsListed
    => /\ PermutationOf(streams_sorted, Last(streamlog).resp.body)
       /\ \A i, j \in 1..Len(streams_sorted) :
             i < j
             => /\ ~(~IsPM25(streams_sorted[i]) /\ IsPM25(streams_sorted[j]))
                /\ IsPM25(streams_sorted[i]) = IsPM25(streams_sorted[j])
                   => LexRank(SensorNameOrEmpty(streams_sorted[i]))
                        <= LexRank(SensorNameOrEmpty(streams_sorted[j]))

\* What the code does instead: a null name beside a string or missing
\* name of its group ends the run in the sort, before any probe.
NullNameCrashesSort ==
    (StreamsListed /\ \E i, j \in 1..Len(Last(streamlog).resp.body) :
                         KeyRaises(Last(streamlog).resp.body[i],
                                   Last(streamlog).resp.body[j]))
    => outcome = "crashed" /\ streams_sorted = <<>> /\ probelog = <<>>

\* C16: the time sort is stable: the rows of a produced table can be
\* traced back to the raw records so that any two rows of equal time stand
\* in the order their records had in the raw list.
C16_StableTimeSort ==
    TableProduced
    => LET rows == nout[1].rows IN
       \E p \in [1..Len(rows) -> ParsedIndexes(nin)] :
          /\ \A i, j \in 1..Len(rows) : i # j => p[i] # p[j]
          /\ \A j \in 1..Len(rows) : rows[j] = ParsedRow(nin[p[j]])
          /\ \A i, j \in 1..Len(rows) :
                (i < j /\ rows[i]["time"] = rows[j]["time"]) => p[i] < p[j]

\* A table whose two rows of one instant are in the opposite order of
\* their records.
TiesSwapped ==
    /\ TableProduced
    /\ nin = <<RecSeconds, RecMillis>>
    /\ nout[1].rows = <<ParsedRow(RecMillis), ParsedRow(RecSeconds)>>

\* find_stream_with_data returned a stream over a provider with fixed data.
StreamReturned == held # <<>> /\ pc = "done" /\ stream_id # <<>>

\* C17 as stated: when stream number pi is returned at window number hi, no
\* stream of the session holds data inside a window smaller than that one.
C17_FreshestOfAllStreams ==
    StreamReturned
    => \A j \in 1..Len(streams_sorted) : held[j] >= hi

\* C17 as amended: the returned stream holds data in the returned window
\* and in no smaller one, and every stream ranked before it holds data in
\* none of the six windows; the streams ranked after it were not probed.
C17_FreshestOfRankedStream ==
    StreamReturned
    => /\ held[pi] = hi
       /\ stream_id = <<streams_sorted[pi].stream_id>>
       /\ Last(probelog).hours = LOOKBACKS_H[hi]
       /\ \A j \in 1..(pi - 1) : held[j] > Len(LOOKBACKS_H)
       /\ \A i \in 1..Len(probelog) :
             \A j \in (pi + 1)..Len(streams_sorted) :
                probelog[i].stream_id # streams_sorted[j].stream_id

\* The first stream is returned at the 180-day window although the second
\* holds data of the last 24 hours.
C17_Witness ==
    /\ StreamReturned
    /\ Len(streams_sorted) = 2
    /\ pi = 1 /\ hi = 5
    /\ held[2] = 1

\* The first session of the answer the cascade stopped at.
FirstOfAnswer == Last(mslog).resp.body[1]

\* C18: the session the cascade returns has the id field of the first
\* session of the answer when that is an object with id, its session_id
\* field when it is an object without id, and the first session itself
\* when that is a bare identifier; in each of the three shapes the id is
\* not null, and it is the id the stream listing is requested for.
C18_SessionIdNormalized ==
    FoundByCascade
    => /\ session # <<>>
       /\ (FirstOfAnswer.isdict /\ "id" \in DOMAIN FirstOfAnswer.d)
          => session[1].id = FirstOfAnswer.d.id
       /\ (FirstOfAnswer.isdict /\ "id" \notin DOMAIN FirstOfAnswer.d
              /\ "session_id" \in DOMAIN FirstOfAnswer.d)
          => session[1].id = FirstOfAnswer.d.session_id
       /\ ~FirstOfAnswer.isdict => session[1].id = FirstOfAnswer.bare
       /\ session[1].id # "None"
       /\ \A i \in 1..Len(streamlog) : streamlog[i].session_id = session[1].id

C18_Witness ==
    /\ FoundByCascade
    /\ FirstOfAnswer = MsDict([session_id |-> "s23", title |-> "b"])
    /\ session # <<>> /\ session[1].id = "s23"
    /\ streamlog # <<>> /\ streamlog[1].session_id = "s23"

\* Discovery has returned a session: from a listing, or from the cascade.
SessionDiscovered ==
    /\ session # <<>>
    /\ \/ v3log # <<>> /\ NonEmpty(Last(v3log).resp) /\ mslog = <<>>
       \/ FoundByCascade

\* C19: a step that issues a cascade request is taken only when no primary
\* listing has returned sessions; the step that issues the stream listing
\* only when discovery has returned a session and no listing was issued
\* before; a step that issues a probe only when the stream listing has
\* returned streams; and a step that normalises and saves only with a
\* probe that returned measurements.
C19_PhaseOrder ==
    [][ /\ mslog' # mslog
           => /\ Len(v3log) = 2
              /\ \A i \in 1..Len(v3log) : Empty(v3log[i].resp)
        /\ streamlog' # streamlog
           => SessionDiscovered /\ streamlog = <<>> /\ Len(streamlog') = 1
        /\ probelog' # probelog
           => /\ Len(streamlog) = 1 /\ NonEmpty(streamlog[1].resp)
              /\ streams_sorted # <<>>
        /\ (table' # table \/ measurements' # measurements
                \/ outcome' = "table")
           => /\ probelog' # probelog
              /\ NonEmpty(Last(probelog').resp)
              /\ measurements' = Last(probelog').resp.body ]_vars

\* A run through all four phases: both listings empty, a session from the
\* cascade, its streams, an empty probe and a probe with measurements.
C19_Witness ==
    /\ Len(v3log) = 2 /\ Len(mslog) = 2 /\ FoundByCascade
    /\ Len(streamlog) = 1
    /\ Len(probelog) = 3 /\ NonEmpty(probelog[3].resp)
    /\ outcome = "table" /\ table # <<>>

\* The ways C20 lets a run end.
OutcomesOfC20 == {"table", "no_session", "no_streams", "no_data", "aborted"}

\* The request bounds of C20: at most 2 primary, 18 cascade and 1 stream
\* listing request, at most 6 probes per listed stream, no combination and
\* no (stream, window) requested twice.
RequestBounds ==
    /\ Len(v3log) <= 2
    /\ Len(mslog) <= 18
    /\ Len(streamlog) <= 1
    /\ probelog # <<>> => Len(probelog) <= 6 * Len(Last(streamlog).resp.body)
    /\ \A j \in 1..Len(mslog) : \A i \in 1..(j - 1) :
          ComboOf(mslog[i]) # ComboOf(mslog[j])
    /\ \A j \in 1..Len(probelog) : \A i \in 1..(j - 1) :
          <<probelog[i].stream_id, probelog[i].hours>>
            # <<probelog[j].stream_id, probelog[j].hours>>

\* C20: within the request bounds, a run ends only as one of: table
\* produced, no session found, no streams, no stream with data, aborted by
\* a transport failure.
C20_BoundedOutcomes ==
    /\ RequestBounds
    /\ outcome # "running" => pc = "done"
    /\ pc = "done" => outcome \in OutcomesOfC20

\* The runs do end, and the only other way to end is an exception in the
\* stream ranking or in the normaliser.
Terminates == <>(pc = "done")
EndsOrCrashes ==
    /\ RequestBounds
    /\ pc = "done" <=> outcome # "running"
    /\ outcome \in OutcomesOfC20 \cup {"running", "crashed"}
    /\ outcome = "crashed"
       => \/ StreamsListed /\ streams_sorted = <<>> /\ probelog = <<>>
          \/ probelog # <<>> /\ NonEmpty(Last(probelog).resp) /\ table = <<>>
====
